---------------------------- MODULE Spec2Model ----------------------------
(***************************************************************************)
(* A model of change_wallpaper_reddit.py: one run of the script, from the  *)
(* module-level load_config() to the exit of main().                       *)
(*                                                                         *)
(* Python strings are sequences of one-character strings, so that the      *)
(* string operations of the script (endswith, in, split, rsplit, lower,    *)
(* the URL_STRIP_PATTERN substitution, int(), ConfigParser.getboolean) are *)
(* computed rather than assumed.  Text that is only compared whole (the     *)
(* messages, the names of the steps, DESKTOP_SESSION) is a TLA+ string.  An *)
(* optional value (None or a value) is a set with no or one element.       *)
(***************************************************************************)
EXTENDS Integers, Sequences, FiniteSets, TLC

(***************************************************************************)
(* Python str operations used by the script                                *)
(***************************************************************************)

\* s.endswith(suffix)
EndsWith(s, suffix) ==
    /\ Len(suffix) <= Len(s)
    /\ SubSeq(s, Len(s) - Len(suffix) + 1, Len(s)) = suffix

\* sub in s
Contains(s, sub) ==
    \E i \in 1..(Len(s) - Len(sub) + 1) : SubSeq(s, i, i + Len(sub) - 1) = sub

\* the positions of character c in s
Positions(s, c) == {i \in 1..Len(s) : s[i] = c}

\* the greatest element of a non-empty set of integers
Max(S) == CHOOSE m \in S : \A x \in S : x <= m

\* the least element of a non-empty set of integers
Min(S) == CHOOSE m \in S : \A x \in S : m <= x

\* s.rsplit(c, 1): <<head, tail>> split at the last c, or <<s>> without any c
RSplit1(s, c) ==
    IF Positions(s, c) = {}
    THEN <<s>>
    ELSE LET p == Max(Positions(s, c))
         IN <<SubSeq(s, 1, p - 1), SubSeq(s, p + 1, Len(s))>>

\* s.split(c)[-1]: what follows the last c (all of s without any c)
SplitLast(s, c) ==
    IF Positions(s, c) = {}
    THEN s
    ELSE SubSeq(s, Max(Positions(s, c)) + 1, Len(s))

UpperCase == <<"A", "B", "C", "D", "E", "F", "G", "H", "I", "J", "K", "L", "M",
               "N", "O", "P", "Q", "R", "S", "T", "U", "V", "W", "X", "Y", "Z">>

LowerCase == <<"a", "b", "c", "d", "e", "f", "g", "h", "i", "j", "k", "l", "m",
               "n", "o", "p", "q", "r", "s", "t", "u", "v", "w", "x", "y", "z">>

\* one character of s.lower()
LowerChar(c) ==
    IF \E i \in 1..Len(UpperCase) : UpperCase[i] = c
    THEN LowerCase[CHOOSE i \in 1..Len(UpperCase) : UpperCase[i] = c]
    ELSE c

\* s.lower()
Lower(s) == [i \in 1..Len(s) |-> LowerChar(s[i])]

\* URL_STRIP_PATTERN.sub("", url): the pattern \?.* matches from the first
\* question mark to the end of the string
UrlStrip(url) ==
    IF Positions(url, "?") = {}
    THEN url
    ELSE SubSeq(url, 1, Min(Positions(url, "?")) - 1)

\* bool(x) of an optional string: None and "" are false
Truthy(opt) == opt # {} /\ opt # {<<>>}

\* x or y, on optional strings
OrElse(x, y) == IF Truthy(x) THEN x ELSE y

\* the value of a non-empty optional
The(opt) == CHOOSE x \in opt : TRUE

(***************************************************************************)
(* Text the script and its inputs are made of                              *)
(***************************************************************************)

DotJpg == <<".", "j", "p", "g">>
DotPng == <<".", "p", "n", "g">>
DotJpeg == <<".", "j", "p", "e", "g">>
DotGif == <<".", "g", "i", "f">>
DotJPG == <<".", "J", "P", "G">>
Jpg == <<"j", "p", "g">>
Png == <<"p", "n", "g">>
Jpeg == <<"j", "p", "e", "g">>
ImgurCom == <<"i", "m", "g", "u", "r", ".", "c", "o", "m">>
AlbumPart == <<"/", "a", "/">>
GalleryPart == <<"/", "g", "a", "l", "l", "e", "r", "y", "/">>
SlashNew == <<"/", "n", "e", "w">>
DirectImgur == <<"h", "t", "t", "p", ":", "/", "/", "i", ".", "i", "m", "g", "u",
                 "r", ".", "c", "o", "m", "/">>
HttpsImgur == <<"h", "t", "t", "p", "s", ":", "/", "/", "i", "m", "g", "u", "r",
                ".", "c", "o", "m">>
HttpsExample == <<"h", "t", "t", "p", "s", ":", "/", "/", "e", "x", "a", "m", "p",
                  "l", "e", ".", "c", "o", "m">>
Abc123 == <<"a", "b", "c", "1", "2", "3">>
Pic == <<"p", "i", "c">>
Query == <<"?", "x", "=", "1">>
Desktop == <<"D", "e", "s", "k", "t", "o", "p">>
FlairDesktop == <<"4", "k", " ", "D", "e", "s", "k", "t", "o", "p", " ", "W", "a",
                  "l", "l", "p", "a", "p", "e", "r">>
FlairMobile == <<"M", "o", "b", "i", "l", "e">>
Wallpaper == <<"w", "a", "l", "l", "p", "a", "p", "e", "r">>
Art == <<"a", "r", "t">>
Wallpapers == <<"W", "a", "l", "l", "p", "a", "p", "e", "r", "s">>
Pics == <<"P", "i", "c", "s">>

(***************************************************************************)
(* get_top_image: the classification of one submission's URL               *)
(***************************************************************************)

\* url.endswith((".jpg", ".png", ".jpeg"))
IsDirectImage(url) ==
    EndsWith(url, DotJpg) \/ EndsWith(url, DotPng) \/ EndsWith(url, DotJpeg)

\* "imgur.com" in url and "/a/" not in url and "/gallery/" not in url
IsImgurPage(url) ==
    /\ Contains(url, ImgurCom)
    /\ ~Contains(url, AlbumPart)
    /\ ~Contains(url, GalleryPart)

\* (a variant of the identifier below: the extension is kept)
ImgurIdWithExtension(url) ==
    LET u == IF EndsWith(url, SlashNew) THEN RSplit1(url, "/")[1] ELSE url
    IN RSplit1(u, "/")[2]

\* the identifier of an Imgur page link: the last path segment, without a
\* trailing /new segment and without what follows its last dot
ImgurId(url) ==
    LET u == IF EndsWith(url, SlashNew) THEN RSplit1(url, "/")[1] ELSE url
    IN RSplit1(RSplit1(u, "/")[2], ".")[1]

\* what the loop body returns for a submission that passed the filters: the
\* image record, or nothing when the loop goes on to the next submission
ImageOf(submission) ==
    LET url == UrlStrip(submission.url)
        file_extension == Lower(SplitLast(url, "."))
    IN IF IsDirectImage(url)
       THEN {[id |-> submission.id, subreddit |-> submission.subreddit,
              url |-> url, type |-> file_extension]}
       ELSE IF IsImgurPage(url)
       THEN {[id |-> submission.id, subreddit |-> submission.subreddit,
              url |-> DirectImgur \o ImgurId(url) \o DotJpg, type |-> Jpg]}
       ELSE {}

\* (a variant of the filter below: the flag read the wrong way round)
NsfwSkippedWhenEnabled(args, submission) == args.nsfw /\ submission.over_18

\* not args.nsfw and submission.over_18
NsfwSkipped(args, submission) == ~args.nsfw /\ submission.over_18

\* args.flair and (not submission.link_flair_text
\*                 or args.flair.lower() not in submission.link_flair_text.lower())
FlairSkipped(args, submission) ==
    /\ args.flair # <<>>
    /\ \/ ~Truthy(submission.link_flair_text)
       \/ ~Contains(Lower(The(submission.link_flair_text)), Lower(args.flair))

\* the for loop of get_top_image from position i on: the first image record
\* returned, or None when the submissions are exhausted
RECURSIVE ScanFrom(_, _, _)
ScanFrom(submissions, args, i) ==
    IF i > Len(submissions)
    THEN {}
    ELSE LET submission == submissions[i]
         IN IF NsfwSkipped(args, submission)
            THEN ScanFrom(submissions, args, i + 1)
            ELSE IF FlairSkipped(args, submission)
            THEN ScanFrom(submissions, args, i + 1)
            ELSE IF ImageOf(submission) # {}
            THEN ImageOf(submission)
            ELSE ScanFrom(submissions, args, i + 1)

(***************************************************************************)
(* Typed values, as the configuration dictionary holds them                *)
(***************************************************************************)

StrVal(s) == [t |-> "str", v |-> s]
IntVal(n) == [t |-> "int", v |-> n]
BoolVal(b) == [t |-> "bool", v |-> b]

Digits == <<"0", "1", "2", "3", "4", "5", "6", "7", "8", "9">>

IsDigit(c) == \E i \in 1..Len(Digits) : Digits[i] = c

DigitValue(c) == (CHOOSE i \in 1..Len(Digits) : Digits[i] = c) - 1

\* whether int(s) succeeds: an optional sign and at least one digit
IsIntLiteral(s) ==
    LET body == IF Len(s) > 0 /\ s[1] \in {"-", "+"} THEN Tail(s) ELSE s
    IN Len(body) > 0 /\ \A i \in 1..Len(body) : IsDigit(body[i])

RECURSIVE DigitsValue(_)
DigitsValue(s) ==
    IF s = <<>>
    THEN 0
    ELSE 10 * DigitsValue(SubSeq(s, 1, Len(s) - 1)) + DigitValue(s[Len(s)])

\* int(s), for s an integer literal
ParseInt(s) ==
    IF s[1] = "-" THEN 0 - DigitsValue(Tail(s))
    ELSE IF s[1] = "+" THEN DigitsValue(Tail(s))
    ELSE DigitsValue(s)

RECURSIVE NatToStr(_)
NatToStr(n) ==
    IF n < 10
    THEN <<Digits[n + 1]>>
    ELSE NatToStr(n \div 10) \o <<Digits[(n % 10) + 1]>>

\* str(value), as ConfigParser stores each default
PyStr(value) ==
    CASE value.t = "str" -> value.v
      [] value.t = "int" ->
            IF value.v < 0 THEN <<"-">> \o NatToStr(0 - value.v) ELSE NatToStr(value.v)
      [] value.t = "bool" ->
            IF value.v THEN <<"T", "r", "u", "e">> ELSE <<"F", "a", "l", "s", "e">>

(***************************************************************************)
(* DEFAULT_CONFIG and load_config                                          *)
(***************************************************************************)

Keys == {"subreddit", "nsfw", "time", "display", "output", "sort", "limit",
         "random", "flair"}

All == <<"a", "l", "l">>
Week == <<"w", "e", "e", "k">>
Hot == <<"h", "o", "t">>
Top == <<"t", "o", "p">>
New == <<"n", "e", "w">>
Zero == <<"0">>

DEFAULT_CONFIG ==
    [subreddit |-> StrVal(Wallpaper), nsfw |-> BoolVal(FALSE), time |-> StrVal(All),
     display |-> StrVal(Zero), output |-> StrVal(Wallpapers), sort |-> StrVal(Hot),
     limit |-> IntVal(20), random |-> BoolVal(FALSE), flair |-> StrVal(<<>>)]

\* the getter config_mappings pairs with each key
GetterOf(key) ==
    CASE key \in {"nsfw", "random"} -> "getboolean"
      [] key \in {"display", "limit"} -> "getint"
      [] OTHER -> "get"

\* ConfigParser.BOOLEAN_STATES
TrueWords == {<<"1">>, <<"y", "e", "s">>, <<"t", "r", "u", "e">>, <<"o", "n">>}
FalseWords == {<<"0">>, <<"n", "o">>, <<"f", "a", "l", "s", "e">>, <<"o", "f", "f">>}

\* the option lines of the file for one key.  A line of the file is
\* [t |-> "opt", key, value], or [t |-> "junk"] for a line with no delimiter.
LinesOf(lines, key) == {i \in 1..Len(lines) : lines[i].t = "opt" /\ lines[i].key = key}

\* conf.read_string under strict parsing: a repeated option raises at once, a
\* line that is no option raises when the text has been read
ReadString(lines) ==
    IF \E key \in Keys : Cardinality(LinesOf(lines, key)) > 1
    THEN "DuplicateOptionError"
    ELSE IF \E i \in 1..Len(lines) : lines[i].t = "junk"
    THEN "ParsingError"
    ELSE "ok"

\* the raw text of an option of section root: the file's, or the default's str()
RawValue(lines, key) ==
    IF LinesOf(lines, key) # {}
    THEN lines[CHOOSE i \in LinesOf(lines, key) : TRUE].value
    ELSE PyStr(DEFAULT_CONFIG[key])

\* BasicInterpolation rejects a % that starts neither %% nor %(name)s
BadPercent(raw) ==
    \E i \in 1..Len(raw) :
        /\ raw[i] = "%"
        /\ (i = Len(raw) \/ raw[i + 1] \notin {"%", "("})
        /\ (i = 1 \/ raw[i - 1] # "%")

\* getter("root", key): the typed value, or the exception raised
Getter(lines, key) ==
    LET raw == RawValue(lines, key)
    IN IF BadPercent(raw)
       THEN [raised |-> "InterpolationSyntaxError"]
       ELSE CASE GetterOf(key) = "get" -> [raised |-> "", value |-> StrVal(raw)]
              [] GetterOf(key) = "getint" ->
                    IF IsIntLiteral(raw)
                    THEN [raised |-> "", value |-> IntVal(ParseInt(raw))]
                    ELSE [raised |-> "ValueError"]
              [] GetterOf(key) = "getboolean" ->
                    IF Lower(raw) \in TrueWords
                    THEN [raised |-> "", value |-> BoolVal(TRUE)]
                    ELSE IF Lower(raw) \in FalseWords
                    THEN [raised |-> "", value |-> BoolVal(FALSE)]
                    ELSE [raised |-> "ValueError"]

\* one round of the loop over config_mappings: except (ValueError, TypeError)
\* substitutes the default of that key
ConfigEntry(lines, key) ==
    IF Getter(lines, key).raised = "ValueError"
    THEN DEFAULT_CONFIG[key]
    ELSE Getter(lines, key).value

\* load_config(): the dictionary returned, or the exception that leaves it.
\* file is [kind |-> "missing"], [kind |-> "unreadable"] (open raises IOError)
\* or [kind |-> "text", lines |-> ...].
load_config(file) ==
    IF file.kind # "text"
    THEN [raised |-> "", config |-> DEFAULT_CONFIG]
    ELSE IF ReadString(file.lines) # "ok"
    THEN [raised |-> ReadString(file.lines)]
    ELSE IF \E key \in Keys : Getter(file.lines, key).raised = "InterpolationSyntaxError"
    THEN [raised |-> "InterpolationSyntaxError"]
    ELSE [raised |-> "", config |-> [key \in Keys |-> ConfigEntry(file.lines, key)]]

(***************************************************************************)
(* parse_args                                                              *)
(***************************************************************************)

\* the type= of each add_argument; the store_true flags take no value
TypeOf(key) ==
    CASE key \in {"nsfw", "random"} -> "store_true"
      [] key \in {"display", "limit"} -> "int"
      [] OTHER -> "str"

\* (a variant of the option value below: the command line is not read)
ArgValueOfDefaults(argv, cfg, key) ==
    IF TypeOf(key) = "int" /\ cfg[key].t = "str"
    THEN [raised |-> "", value |-> ParseInt(cfg[key].v)]
    ELSE [raised |-> "", value |-> cfg[key].v]

\* argparse's value for one option: the flag's when the flag is given,
\* else the default, which argparse converts with type= when it is a string.
\* argv maps each flag given on the command line to its text.
ArgValue(argv, cfg, key) ==
    IF key \in DOMAIN argv
    THEN CASE TypeOf(key) = "store_true" -> [raised |-> "", value |-> TRUE]
           [] TypeOf(key) = "int" ->
                 IF IsIntLiteral(argv[key])
                 THEN [raised |-> "", value |-> ParseInt(argv[key])]
                 ELSE [raised |-> "ArgumentError"]
           [] TypeOf(key) = "str" -> [raised |-> "", value |-> argv[key]]
    ELSE IF TypeOf(key) = "int" /\ cfg[key].t = "str"
    THEN IF IsIntLiteral(cfg[key].v)
         THEN [raised |-> "", value |-> ParseInt(cfg[key].v)]
         ELSE [raised |-> "ArgumentError"]
    ELSE [raised |-> "", value |-> cfg[key].v]

\* --client-id and --api-key have no default: None unless given
CredentialFlag(argv, name) == IF name \in DOMAIN argv THEN {argv[name]} ELSE {}

\* parse_args(): the namespace, or the parser's error (exit status 2)
parse_args(argv, cfg) ==
    IF \E key \in Keys : ArgValue(argv, cfg, key).raised # ""
    THEN [raised |-> "ArgumentError"]
    ELSE [raised |-> "",
          arguments |->
             [subreddit |-> ArgValue(argv, cfg, "subreddit").value,
              time |-> ArgValue(argv, cfg, "time").value,
              nsfw |-> ArgValue(argv, cfg, "nsfw").value,
              display |-> ArgValue(argv, cfg, "display").value,
              output |-> ArgValue(argv, cfg, "output").value,
              sort |-> ArgValue(argv, cfg, "sort").value,
              limit |-> ArgValue(argv, cfg, "limit").value,
              random |-> ArgValue(argv, cfg, "random").value,
              flair |-> ArgValue(argv, cfg, "flair").value,
              client_id |-> CredentialFlag(argv, "client_id"),
              api_key |-> CredentialFlag(argv, "api_key")]]

(***************************************************************************)
(* get_top_image                                                           *)
(***************************************************************************)

\* the listing requested from the API client for args.sort
ListingRequest(args) ==
    IF args.sort = Top
    THEN [call |-> "top", time_filter |-> {args.time}, limit |-> args.limit]
    ELSE IF args.sort = New
    THEN [call |-> "new", time_filter |-> {}, limit |-> args.limit]
    ELSE [call |-> "hot", time_filter |-> {}, limit |-> args.limit]

\* the orders sorted(submissions, key=lambda k: random.random()) can give
Shuffles(listing) ==
    LET n == Len(listing)
        perms == {f \in [1..n -> 1..n] : \A i, j \in 1..n : f[i] = f[j] => i = j}
    IN {[i \in 1..n |-> listing[f[i]]] : f \in perms}

\* the orders in which the loop may meet the listing
EvaluationOrders(listing, args) ==
    IF args.random THEN Shuffles(listing) ELSE {listing}

\* (a variant of the function below: the loop gives up after one submission)
get_top_image_first_only(submissions, args) ==
    IF submissions = <<>> THEN {} ELSE ScanFrom(<<submissions[1]>>, args, 1)

\* get_top_image, given the order the submissions are met in
get_top_image(submissions, args) == ScanFrom(submissions, args, 1)

(***************************************************************************)
(* load_credentials                                                        *)
(***************************************************************************)

\* credentials.json is [kind |-> "missing"], [kind |-> "invalid"] (no JSON),
\* [kind |-> "array"] (JSON, but no object) or
\* [kind |-> "object", client_id |-> ..., api_key |-> ...] with optional members
load_credentials(client_id, api_key, file) ==
    IF Truthy(client_id) /\ Truthy(api_key)
    THEN [raised |-> "", client_id |-> client_id, api_key |-> api_key]
    ELSE CASE file.kind \in {"missing", "invalid"} ->
                 [raised |-> "", client_id |-> client_id, api_key |-> api_key]
           [] file.kind = "array" -> [raised |-> "AttributeError"]
           [] file.kind = "object" ->
                 [raised |-> "", client_id |-> OrElse(client_id, file.client_id),
                  api_key |-> OrElse(api_key, file.api_key)]

\* (a variant of the check below: "or" in the place of "and")
CredentialsProvidedEither(client_id, api_key) == Truthy(client_id) \/ Truthy(api_key)

\* main: client_id and api_key
CredentialsProvided(client_id, api_key) == Truthy(client_id) /\ Truthy(api_key)

(***************************************************************************)
(* download_image                                                          *)
(***************************************************************************)

\* response.raise_for_status() raises HTTPError for 4xx and 5xx only
RaisesForStatus(status) == 400 <= status /\ status < 600

\* (a variant of the write below: nothing reaches the disk)
WriteNothing(files, save_location, body) == files

\* the file system after open(save_location, "wb") and the writes
WriteFile(files, save_location, body) ==
    [p \in DOMAIN files \cup {save_location} |->
        IF p = save_location THEN body ELSE files[p]]

\* download_image(url, save_location) on a file system whose regular files
\* are files, when the server answers response and the directory is or is
\* not writable.  returned is its result ({} when an exception leaves it),
\* gets the number of HTTP GETs issued.
download_image(url, save_location, files, response, writable) ==
    IF response.kind = "exception"
    THEN [raised |-> "", returned |-> {FALSE}, gets |-> 1, files |-> files,
          stdout |-> <<"Error downloading image">>]
    ELSE IF RaisesForStatus(response.status)
    THEN [raised |-> "", returned |-> {FALSE}, gets |-> 1, files |-> files,
          stdout |-> <<"Error downloading image">>]
    ELSE IF save_location \in DOMAIN files
    THEN [raised |-> "", returned |-> {TRUE}, gets |-> 1, files |-> files,
          stdout |-> <<>>]
    ELSE IF ~writable
    THEN [raised |-> "OSError", returned |-> {}, gets |-> 1, files |-> files,
          stdout |-> <<>>]
    ELSE [raised |-> "", returned |-> {TRUE}, gets |-> 1,
          files |-> WriteFile(files, save_location,
                              [url |-> url, status |-> response.status]),
          stdout |-> <<>>]

\* Path.home() / save_dir / f"{subreddit}-{image['id']}.{image['type']}"
SaveLocation(save_dir, subreddit, image) ==
    [home |-> "~", dir |-> save_dir,
     name |-> subreddit \o <<"-">> \o image.id \o <<".">> \o image.type]

(***************************************************************************)
(* detect_desktop_environment and set_wallpaper                            *)
(***************************************************************************)

\* one character of s.upper()
UpperChar(c) ==
    IF \E i \in 1..Len(LowerCase) : LowerCase[i] = c
    THEN UpperCase[CHOOSE i \in 1..Len(LowerCase) : LowerCase[i] = c]
    ELSE c

\* s.upper()
Upper(s) == [i \in 1..Len(s) |-> UpperChar(s[i])]

GNOME == <<"G", "N", "O", "M", "E">>
UbuntuGnome == <<"u", "b", "u", "n", "t", "u", ":", "G", "N", "O", "M", "E">>
XFCE == <<"X", "F", "C", "E">>
XfceMark == <<" ", "=", " ", "\"", "x", "f", "c", "e", "4", "\"">>
XpropXfce == <<"_", "D", "T", "_", "S", "A", "V", "E", "_", "M", "O", "D", "E",
               "(", "S", "T", "R", "I", "N", "G", ")", " ", "=", " ", "\"", "x",
               "f", "c", "e", "4", "\"">>
XpropNone == <<"n", "o", " ", "s", "u", "c", "h", " ", "a", "t", "o", "m">>

\* The command templates.  A template is the sequence of its pieces: "{" and
\* "}" are the braces str.format reads, the piece after a "{" is the
\* replacement field, every other piece is literal text.
KdeCommand ==
    <<"qdbus org.kde.plasmashell /PlasmaShell org.kde.PlasmaShell.evaluateScript 'var allDesktops = desktops();for (i=0;i<allDesktops.length;i++) ",
      "{",
      "    d = allDesktops[i];    d.wallpaperPlugin = \"org.kde.image\";    d.currentConfigGroup = Array(\"Wallpaper\", \"org.kde.image\", \"General\");    d.writeConfig(\"Image\", \"file:///",
      "{", "save_location", "}", "\");", "}", "'">>

GnomeCommand ==
    <<"gsettings set org.gnome.desktop.background picture-uri file://",
      "{", "save_location", "}",
      " && gsettings set org.gnome.desktop.background picture-uri-dark file://",
      "{", "save_location", "}">>

LubuntuCommand == <<"pcmanfm -w ", "{", "save_location", "}", " --wallpaper-mode=fit">>

MateCommand ==
    <<"gsettings set org.mate.background picture-filename ", "{", "save_location", "}">>

FehCommand == <<"feh --bg-scale ", "{", "save_location", "}">>

XfceCommand ==
    <<"xfconf-query -c xfce4-desktop -p /backdrop/screen0/monitor0/workspace0/last-image -s ",
      "{", "save_location", "}">>

DarwinAllCommand ==
    <<"osascript -e 'tell application \"System Events\"set desktopCount to count of desktopsrepeat with desktopNumber from 1 to desktopCount    tell desktop desktopNumber        set picture to \"",
      "{", "save_location", "}", "\"    end tellend repeatend tell'">>

DarwinOneCommand ==
    <<"osascript -e 'tell application \"System Events\"set desktopCount to count of desktopstell desktop ",
      "{", "display", "}", "    set picture to \"", "{", "save_location", "}",
      "\"end tellend tell'">>

\* detect_desktop_environment() on Linux: {} for None.  env holds what
\* platform.system() returns, the environment variables read (each optional)
\* and the output of xprop.
detect_desktop_environment(env) ==
    IF env.KDE_FULL_SESSION = {"true"}
    THEN {[name |-> "kde", command |-> KdeCommand]}
    ELSE IF \/ Truthy(env.GNOME_DESKTOP_SESSION_ID)
            \/ /\ Truthy(env.XDG_CURRENT_DESKTOP)
               /\ Contains(Upper(The(env.XDG_CURRENT_DESKTOP)), GNOME)
    THEN {[name |-> "gnome", command |-> GnomeCommand]}
    ELSE IF env.DESKTOP_SESSION = {"Lubuntu"}
    THEN {[name |-> "lubuntu", command |-> LubuntuCommand]}
    ELSE IF env.DESKTOP_SESSION = {"mate"}
    THEN {[name |-> "mate", command |-> MateCommand]}
    ELSE IF env.DESKTOP_SESSION \in {{"i3"}, {"leftwm"}, {"dwm"}}
    THEN {[name |-> "i3", command |-> FehCommand]}
    ELSE IF Contains(env.xprop, XfceMark)
    THEN {[name |-> "xfce", command |-> XfceCommand]}
    ELSE {}

\* whether template.format(**fields) raises: a replacement field that names
\* no keyword (KeyError), or a brace that opens or closes no field (ValueError)
FormatRaises(template, fields) ==
    \E i \in 1..Len(template) :
        \/ /\ template[i] = "{"
           /\ \/ i + 2 > Len(template)
              \/ template[i + 1] \notin DOMAIN fields
              \/ template[i + 2] # "}"
        \/ /\ template[i] = "}"
           /\ (i < 3 \/ template[i - 2] # "{")

\* template.format(**fields) when it does not raise: each field replaced
RECURSIVE FormatFrom(_, _, _)
FormatFrom(template, fields, i) ==
    IF i > Len(template)
    THEN <<>>
    ELSE IF template[i] = "{"
    THEN <<fields[template[i + 1]]>> \o FormatFrom(template, fields, i + 3)
    ELSE <<template[i]>> \o FormatFrom(template, fields, i + 1)

\* set_wallpaper(save_location, args) on the host env: the commands
\* handed to the operating system, what is printed, and the exception that
\* leaves the function, if any
set_wallpaper(save_location, display, env) ==
    IF env.system = "Linux"
    THEN IF detect_desktop_environment(env) # {}
         THEN LET de == The(detect_desktop_environment(env))
                  fields == [save_location |-> save_location]
              IN IF FormatRaises(de.command, fields)
                 THEN [raised |-> "KeyError", commands |-> <<>>, stdout |-> <<>>]
                 ELSE [raised |-> "",
                       commands |-> <<FormatFrom(de.command, fields, 1)>>,
                       stdout |-> <<>>]
         ELSE [raised |-> "", commands |-> <<>>,
               stdout |-> <<"Unsupported desktop environment">>]
    ELSE IF env.system = "Windows"
    THEN [raised |-> "",
          commands |-> <<<<"SystemParametersInfoW", save_location>>>>,
          stdout |-> <<>>]
    ELSE IF env.system = "Darwin"
    THEN LET fields == [save_location |-> save_location, display |-> display]
             command == IF display = 0 THEN DarwinAllCommand ELSE DarwinOneCommand
         IN IF FormatRaises(command, fields)
            THEN [raised |-> "KeyError", commands |-> <<>>, stdout |-> <<>>]
            ELSE [raised |-> "", commands |-> <<FormatFrom(command, fields, 1)>>,
                  stdout |-> <<>>]
    ELSE [raised |-> "", commands |-> <<>>, stdout |-> <<>>]

(***************************************************************************)
(* Bounds and inputs                                                       *)
(***************************************************************************)

\* the most submissions the subreddit returns for one listing
MaxPosts == 2

\* the most lines of a configuration file, and the most flags of a command
\* line, when the options alone are resolved (SpecOptions)
MaxLines == 2
MaxFlags == 1

Opt(key, value) == [t |-> "opt", key |-> key, value |-> value]

Junk == [t |-> "junk"]

Missing == [kind |-> "missing"]

TextFile(lines) == [kind |-> "text", lines |-> lines]

Id(n) == <<"p", Digits[n + 1]>>

Post(id, url, over_18, flair) ==
    [id |-> id, subreddit |-> Wallpaper, url |-> url, over_18 |-> over_18,
     link_flair_text |-> flair]

\* the submissions of the subreddit
Pool ==
    {Post(<<"a", "b", "c">>, HttpsExample \o <<"/">> \o Pic \o DotJpg, FALSE, {}),
     Post(Id(2), HttpsImgur \o <<"/">> \o Abc123 \o DotPng \o Query, FALSE,
          {FlairDesktop}),
     Post(Id(3), HttpsImgur \o <<"/">> \o Abc123, TRUE, {FlairMobile}),
     Post(Id(4), HttpsImgur \o <<"/">> \o Abc123 \o SlashNew, FALSE, {FlairDesktop}),
     Post(Id(5), HttpsImgur \o AlbumPart \o Abc123, FALSE, {}),
     Post(Id(6), HttpsImgur \o GalleryPart \o Abc123, FALSE, {FlairDesktop}),
     Post(Id(7), HttpsImgur \o <<"/">> \o Abc123 \o DotGif \o Query, FALSE, {}),
     Post(Id(8), HttpsExample \o <<"/">> \o Pic \o DotJPG, FALSE, {FlairDesktop}),
     Post(Id(1), HttpsExample \o <<"/">> \o Pic \o DotJpeg \o Query, TRUE,
          {FlairDesktop})}

\* what a listing call can return: distinct submissions, at most limit of them
Listings(limit) ==
    {b \in UNION {[1..n -> Pool] : n \in 0..MaxPosts} :
        /\ Len(b) <= limit
        /\ \A i, j \in 1..Len(b) : b[i] = b[j] => i = j}

\* what the server can answer to the GET
Responses ==
    {[kind |-> "exception", status |-> 0]}
        \cup {[kind |-> "response", status |-> c] : c \in {200, 302, 404, 500}}

\* the contents of credentials.json
CredentialFiles ==
    {[kind |-> "missing"], [kind |-> "invalid"], [kind |-> "array"],
     [kind |-> "object", client_id |-> {}, api_key |-> {}],
     [kind |-> "object", client_id |-> {<<"i", "d">>}, api_key |-> {<<>>}],
     [kind |-> "object", client_id |-> {<<"i", "d">>}, api_key |-> {<<"k", "e", "y">>}]}

NoEnv ==
    [system |-> "Linux", KDE_FULL_SESSION |-> {}, GNOME_DESKTOP_SESSION_ID |-> {},
     XDG_CURRENT_DESKTOP |-> {}, DESKTOP_SESSION |-> {}, xprop |-> XpropNone]

\* the hosts of a run: Linux desktops, Windows, macOS, and another system
Environments ==
    {NoEnv, [NoEnv EXCEPT !.system = "Windows"], [NoEnv EXCEPT !.system = "Darwin"],
     [NoEnv EXCEPT !.system = "FreeBSD"],
     [NoEnv EXCEPT !.KDE_FULL_SESSION = {"true"}, !.DESKTOP_SESSION = {"plasma"}],
     [NoEnv EXCEPT !.GNOME_DESKTOP_SESSION_ID = {<<"x">>}],
     [NoEnv EXCEPT !.XDG_CURRENT_DESKTOP = {UbuntuGnome}],
     [NoEnv EXCEPT !.DESKTOP_SESSION = {"Lubuntu"}],
     [NoEnv EXCEPT !.DESKTOP_SESSION = {"mate"}],
     [NoEnv EXCEPT !.DESKTOP_SESSION = {"i3"}],
     [NoEnv EXCEPT !.XDG_CURRENT_DESKTOP = {XFCE}, !.xprop = XpropXfce]}

\* the command lines that give each flag of flagTexts at most once, with at
\* most max flags
Argvs(flagTexts, max) ==
    LET texts == UNION {flagTexts[k] : k \in DOMAIN flagTexts}
        chosen == {K \in SUBSET DOMAIN flagTexts : Cardinality(K) <= max}
    IN {f \in UNION {[K -> texts] : K \in chosen} :
           \A k \in DOMAIN f : f[k] \in flagTexts[k]}

\* the flags of the runs: those the selection and the credentials depend on
RunFlags ==
    [nsfw |-> {<<>>}, random |-> {<<>>}, flair |-> {Desktop}, limit |-> {<<"1">>},
     client_id |-> {<<"i", "d">>}, api_key |-> {<<"k", "e", "y">>}]

RunArgvs == Argvs(RunFlags, Cardinality(DOMAIN RunFlags))

RunConfigFiles ==
    {Missing,
     TextFile(<<Opt("nsfw", <<"t", "r", "u", "e">>), Opt("sort", Top),
                Opt("time", Week), Opt("display", <<"1">>)>>),
     TextFile(<<Opt("sort", New), Opt("limit", <<"1">>)>>),
     TextFile(<<Junk>>)}

\* a wallpaper an earlier run has left in the output directory
EarlierFile == [url |-> <<>>, status |-> 200]

EarlierFiles ==
    LET kept == {p \in Pool : p.id \in {<<"a", "b", "c">>, Id(4)}}
    IN [path \in {SaveLocation(Wallpapers, Wallpaper, The(ImageOf(p))) : p \in kept}
          |-> EarlierFile]

\* the lines and flags of SpecOptions: for every key a valid text, and for
\* the typed keys a text of the wrong type
OptionLines ==
    {Opt("subreddit", Art), Opt("nsfw", <<"t", "r", "u", "e">>),
     Opt("nsfw", <<"m", "a", "y", "b", "e">>), Opt("time", Week),
     Opt("display", <<"1">>), Opt("display", <<"x">>), Opt("output", Pics),
     Opt("output", <<"5", "0", "%">>), Opt("sort", Top), Opt("limit", <<"5">>),
     Opt("limit", <<"a", "b", "c">>), Opt("random", <<"Y", "e", "s">>),
     Opt("flair", Desktop), Junk}

OptionFiles ==
    {Missing, [kind |-> "unreadable"]}
        \cup {TextFile(l) : l \in UNION {[1..n -> OptionLines] : n \in 0..MaxLines}}

OptionFlags ==
    [subreddit |-> {Pic}, nsfw |-> {<<>>}, time |-> {All}, display |-> {<<"2">>},
     output |-> {Wallpapers}, sort |-> {New}, limit |-> {<<"7">>, <<"x">>},
     random |-> {<<>>}, flair |-> {FlairMobile}]

OptionArgvs == Argvs(OptionFlags, MaxFlags)

(***************************************************************************)
(* The run                                                                 *)
(***************************************************************************)

VARIABLES
    configFile,     \* the configuration file of this run
    argv,           \* the command line of this run
    environ,        \* the host: platform.system(), os.environ, xprop's answer
    files,          \* the regular files of the file system, with their contents
    pc,             \* the statement the script is at
    config,         \* the module-level config, once load_config has returned
    args,           \* parse_args()'s namespace
    credentials,    \* client_id, api_key of main, once load_credentials returned
    reddit,         \* whether praw.Reddit has been constructed
    network,        \* the requests sent: listings and HTTP GETs
    listing,        \* the submissions the API returned (get_top_image)
    submissions,    \* the submissions in the order the loop meets them
    image,          \* main's image
    save_location,  \* main's save_location
    response,       \* the server's answer to the GET
    downloaded,     \* what download_image returned
    setterCalls,    \* the arguments of each set_wallpaper call
    osCalls,        \* the commands handed to the operating system
    stdout, stderr, \* what was printed
    exitCode,       \* the exit status, once the process has ended
    trail           \* the steps of main, in the order they started

vars ==
    <<configFile, argv, environ, files, pc, config, args, credentials,
      reddit, network, listing, submissions, image, save_location, response,
      downloaded, setterCalls, osCalls, stdout, stderr, exitCode, trail>>

inputs == <<configFile, argv>>

Started ==
    /\ environ = {}
    /\ pc = "import"
    /\ config = {}
    /\ args = {}
    /\ credentials = {}
    /\ reddit = FALSE
    /\ network = <<>>
    /\ listing = <<>>
    /\ submissions = <<>>
    /\ image = {}
    /\ save_location = {}
    /\ response = {}
    /\ downloaded = {}
    /\ setterCalls = <<>>
    /\ osCalls = <<>>
    /\ stdout = <<>>
    /\ stderr = <<>>
    /\ exitCode = {}
    /\ trail = <<>>

Init ==
    /\ configFile \in RunConfigFiles
    /\ argv \in RunArgvs
    /\ files \in {<<>>, EarlierFiles}
    /\ Started

InitOptions ==
    /\ configFile \in OptionFiles
    /\ argv \in OptionArgvs
    /\ files = <<>>
    /\ Started

\* sys.exit(message): the message on the error stream, exit status 1
SysExit(message) ==
    /\ pc' = "done"
    /\ stderr' = Append(stderr, message)
    /\ exitCode' = {1}

\* an exception no handler catches: the traceback, exit status 1
Uncaught(exception) ==
    /\ pc' = "done"
    /\ stderr' = Append(stderr, "Traceback: " \o exception)
    /\ exitCode' = {1}

\* config = load_config(), when the module is loaded
LoadConfig ==
    /\ pc = "import"
    /\ LET r == load_config(configFile)
       IN IF r.raised = ""
          THEN /\ config' = {r.config}
               /\ pc' = "parse_args"
               /\ UNCHANGED <<stderr, exitCode>>
          ELSE /\ Uncaught(r.raised)
               /\ UNCHANGED config
    /\ UNCHANGED <<inputs, environ, files, args, credentials, reddit, network,
                   listing, submissions, image, save_location, response,
                   downloaded, setterCalls, osCalls, stdout, trail>>

\* main: args = parse_args()
ParseArgs ==
    /\ pc = "parse_args"
    /\ trail' = Append(trail, "parse_args")
    /\ LET r == parse_args(argv, The(config))
       IN IF r.raised = ""
          THEN /\ args' = {r.arguments}
               /\ pc' = "load_credentials"
               /\ UNCHANGED <<stderr, exitCode>>
          ELSE /\ pc' = "done"
               /\ stderr' = Append(stderr, "usage")
               /\ exitCode' = {2}
               /\ UNCHANGED args
    /\ UNCHANGED <<inputs, environ, files, config, credentials, reddit, network,
                   listing, submissions, image, save_location, response,
                   downloaded, setterCalls, osCalls, stdout>>

\* main: load_credentials and the check of what it returned
LoadCredentials ==
    /\ pc = "load_credentials"
    /\ trail' = Append(trail, "load_credentials")
    /\ \E file \in CredentialFiles :
          LET r == load_credentials(The(args).client_id, The(args).api_key, file)
          IN IF r.raised # ""
             THEN /\ Uncaught(r.raised)
                  /\ UNCHANGED credentials
             ELSE /\ credentials' = {[client_id |-> r.client_id, api_key |-> r.api_key]}
                  /\ IF CredentialsProvided(r.client_id, r.api_key)
                     THEN /\ pc' = "init_reddit"
                          /\ UNCHANGED <<stderr, exitCode>>
                     ELSE SysExit("Error: client_id and api_key not provided.")
    /\ UNCHANGED <<inputs, environ, files, config, args, reddit, network, listing,
                   submissions, image, save_location, response, downloaded,
                   setterCalls, osCalls, stdout>>

\* main: r = praw.Reddit(...), which may raise
InitReddit ==
    /\ pc = "init_reddit"
    /\ trail' = Append(trail, "praw.Reddit")
    /\ \E raises \in BOOLEAN :
          IF raises
          THEN /\ SysExit("Error initializing Reddit API")
               /\ UNCHANGED reddit
          ELSE /\ reddit' = TRUE
               /\ pc' = "get_top_image"
               /\ UNCHANGED <<stderr, exitCode>>
    /\ UNCHANGED <<inputs, environ, files, config, args, credentials, network,
                   listing, submissions, image, save_location, response,
                   downloaded, setterCalls, osCalls, stdout>>

\* main: image = get_top_image(r.subreddit(subreddit), args)
GetTopImage ==
    /\ pc = "get_top_image"
    /\ trail' = Append(trail, "get_top_image")
    /\ network' = Append(network, ListingRequest(The(args)))
    /\ \E batch \in Listings(The(args).limit) :
          \E order \in EvaluationOrders(batch, The(args)) :
             /\ listing' = batch
             /\ submissions' = order
             /\ image' = get_top_image(order, The(args))
    /\ pc' = "check_image"
    /\ UNCHANGED <<inputs, environ, files, config, args, credentials, reddit,
                   save_location, response, downloaded, setterCalls, osCalls,
                   stdout, stderr, exitCode>>

\* the listing request fails (no route, credentials refused): the exception
\* leaves get_top_image and main
GetTopImageRaises ==
    /\ pc = "get_top_image"
    /\ trail' = Append(trail, "get_top_image")
    /\ network' = Append(network, ListingRequest(The(args)))
    /\ Uncaught("ResponseException")
    /\ UNCHANGED <<inputs, environ, files, config, args, credentials, reddit,
                   listing, submissions, image, save_location, response,
                   downloaded, setterCalls, osCalls, stdout>>

\* main: if not image: sys.exit(...), else save_location is computed.  The
\* locals of get_top_image are gone.
CheckImage ==
    /\ pc = "check_image"
    /\ listing' = <<>>
    /\ submissions' = <<>>
    /\ IF image = {}
       THEN /\ SysExit("Error: No suitable images were found, the program is now exiting.")
            /\ UNCHANGED save_location
       ELSE /\ save_location' =
                  {SaveLocation(The(args).output, The(args).subreddit, The(image))}
            /\ pc' = "download"
            /\ UNCHANGED <<stderr, exitCode>>
    /\ UNCHANGED <<inputs, environ, files, config, args, credentials, reddit,
                   network, image, response, downloaded, setterCalls, osCalls,
                   stdout, trail>>

\* main: download_image(image["url"], save_location) and the branch on it
DownloadImage ==
    /\ pc = "download"
    /\ trail' = Append(trail, "download_image")
    /\ \E answer \in Responses, writable \in BOOLEAN :
          LET r == download_image(The(image).url, The(save_location), files,
                                  answer, writable)
          IN /\ response' = {answer}
             /\ files' = r.files
             /\ network' = network \o [i \in 1..r.gets |->
                                          [call |-> "GET", url |-> The(image).url]]
             /\ stdout' = stdout \o r.stdout
             /\ downloaded' = r.returned
             /\ IF r.raised # ""
                THEN Uncaught(r.raised)
                ELSE IF r.returned = {TRUE}
                THEN /\ pc' = "set_wallpaper"
                     /\ UNCHANGED <<stderr, exitCode>>
                ELSE SysExit("Error: Failed to download image.")
    /\ UNCHANGED <<inputs, environ, config, args, credentials, reddit, listing,
                   submissions, image, save_location, setterCalls, osCalls>>

\* main: set_wallpaper(save_location, args), after which main returns
SetWallpaper ==
    /\ pc = "set_wallpaper"
    /\ trail' = Append(trail, "set_wallpaper")
    /\ setterCalls' = Append(setterCalls, The(save_location))
    /\ \E env \in Environments :
          LET r == set_wallpaper(The(save_location), The(args).display, env)
          IN /\ environ' = {env}
             /\ osCalls' = osCalls \o r.commands
             /\ stdout' = stdout \o r.stdout
             /\ IF r.raised # ""
                THEN Uncaught(r.raised)
                ELSE /\ pc' = "done"
                     /\ exitCode' = {0}
                     /\ UNCHANGED stderr
    /\ UNCHANGED <<inputs, files, config, args, credentials, reddit, network,
                   listing, submissions, image, save_location, response,
                   downloaded>>

Next ==
    \/ LoadConfig
    \/ ParseArgs
    \/ LoadCredentials
    \/ InitReddit
    \/ GetTopImage
    \/ GetTopImageRaises
    \/ CheckImage
    \/ DownloadImage
    \/ SetWallpaper

Spec == Init /\ [][Next]_vars

NextOptions == LoadConfig \/ ParseArgs

SpecOptions == InitOptions /\ [][NextOptions]_vars

(***************************************************************************)
(* What the claims speak of                                                *)
(***************************************************************************)

\* the steps of main that have started
Steps == {trail[i] : i \in 1..Len(trail)}

\* the requests of one kind sent so far
Calls(kinds) == {i \in 1..Len(network) : network[i].call \in kinds}

ListingCalls == Calls({"top", "new", "hot"})

GetCalls == Calls({"GET"})

\* the process has ended with a non-zero status and a message
FailedWithMessage == pc = "done" /\ exitCode \notin {{}, {0}} /\ stderr # <<>>

\* the submission of the subreddit the selected image comes from
Selected == CHOOSE p \in Pool : p.id = The(image).id

\* NSFW is enabled by the -n flag or by the configuration file
NsfwEnabled == "nsfw" \in DOMAIN argv \/ The(config)["nsfw"].v

\* the three filters, as the specification words them
PassesNsfw(s) == NsfwEnabled \/ ~s.over_18

PassesFlair(s) ==
    \/ The(args).flair = <<>>
    \/ /\ s.link_flair_text # {}
       /\ Contains(Lower(The(s.link_flair_text)), Lower(The(args).flair))

StrippedUrl(s) == UrlStrip(s.url)

EndsInImageExtension(url) == \E e \in {DotJpg, DotPng, DotJpeg} : EndsWith(url, e)

ImgurPageLink(url) ==
    Contains(url, ImgurCom) /\ ~Contains(url, AlbumPart) /\ ~Contains(url, GalleryPart)

HasUsableUrl(s) ==
    EndsInImageExtension(StrippedUrl(s)) \/ ImgurPageLink(StrippedUrl(s))

Passes(s) == PassesNsfw(s) /\ PassesFlair(s) /\ HasUsableUrl(s)

Passing == {i \in 1..Len(submissions) : Passes(submissions[i])}

\* the identifier of an Imgur link: its last path segment, the query string,
\* a trailing /new segment and the extension stripped
Identifier(url) ==
    LET noQuery == UrlStrip(url)
        noNew == IF EndsWith(noQuery, SlashNew)
                 THEN SubSeq(noQuery, 1, Len(noQuery) - Len(SlashNew))
                 ELSE noQuery
        segment == SplitLast(noNew, "/")
    IN IF Positions(segment, ".") = {}
       THEN segment
       ELSE SubSeq(segment, 1, Max(Positions(segment, ".")) - 1)

\* submissions holds the elements of listing, each once
SameBatch ==
    /\ Len(submissions) = Len(listing)
    /\ \A i \in 1..Len(listing) : \E j \in 1..Len(submissions) : submissions[j] = listing[i]

(***************************************************************************)
(* C1                                                                      *)
(***************************************************************************)

\* the credential step is over and the client id or the secret is missing
CredentialsMissing ==
    /\ "load_credentials" \in Steps
    /\ pc # "load_credentials"
    /\ \/ credentials = {}
       \/ ~(Truthy(The(credentials).client_id) /\ Truthy(The(credentials).api_key))

\* C1: when the client id or the secret is still missing after the flags and
\* credentials.json were consulted, the run has ended with a non-zero exit
\* status and an error message, and nothing went out: the Reddit client was
\* not created, no listing was requested, no GET was issued and the setter
\* was not invoked.
C1_MissingCredentialsStopTheRun ==
    CredentialsMissing =>
        /\ FailedWithMessage
        /\ reddit = FALSE
        /\ network = <<>>
        /\ setterCalls = <<>>
        /\ osCalls = <<>>

\* C1's case: only the client id was found, on the command line, and the
\* file did not supply the secret
C1_Witness ==
    /\ CredentialsMissing
    /\ credentials # {}
    /\ "client_id" \in DOMAIN argv
    /\ Truthy(The(credentials).client_id)
    /\ ~Truthy(The(credentials).api_key)

(***************************************************************************)
(* C2                                                                      *)
(***************************************************************************)

\* download_image has run and the save path held a file before it did (the
\* script never replaces a file, so the earlier content tells)
RanOnExistingFile ==
    /\ "download_image" \in Steps
    /\ The(save_location) \in DOMAIN files
    /\ files[The(save_location)] = EarlierFile

\* C2: download_image called with a save path that exists performs no HTTP
\* call and returns True, leaving the file as it was; the run then invokes
\* the setter whatever the server would answer.
C2_ExistingFileSkipsTheGet ==
    RanOnExistingFile =>
        /\ GetCalls = {}
        /\ downloaded = {TRUE}
        /\ pc = "done" => setterCalls # <<>>

(***************************************************************************)
(* C3                                                                      *)
(***************************************************************************)

\* the server answered the GET with something other than a success: a
\* redirect, another non-2xx status, or no answer at all
NoSuccessAnswer ==
    /\ response # {}
    /\ \/ The(response).kind = "exception"
       \/ The(response).status \notin 200..299

\* C3: a redirect, any other non-success status and a network exception are
\* download failures: download_image returns False, nothing is written to
\* the save path, the setter is not invoked and the run exits non-zero.
C3_NoSuccessIsFailure ==
    NoSuccessAnswer =>
        /\ downloaded = {FALSE}
        /\ \A path \in DOMAIN files : files[path] = EarlierFile
        /\ setterCalls = <<>>
        /\ pc = "done" => exitCode \notin {{}, {0}}

(***************************************************************************)
(* C4                                                                      *)
(***************************************************************************)

\* C4: when NSFW is enabled neither by the configuration file nor by -n, the
\* post get_top_image returned is not flagged over_18, whatever the batch,
\* the sort mode, the flair filter and the random flag.
C4_NoAdultPostUnlessEnabled ==
    (image # {} /\ ~NsfwEnabled) => ~Selected.over_18

\* C4's case: NSFW is off, the loop met an adult post whose URL is usable and
\* whose flair passes, and returned a later post
C4_Witness ==
    /\ pc = "check_image"
    /\ ~NsfwEnabled
    /\ image # {}
    /\ Len(submissions) > 1
    /\ submissions[1].over_18
    /\ PassesFlair(submissions[1])
    /\ HasUsableUrl(submissions[1])

(***************************************************************************)
(* C5                                                                      *)
(***************************************************************************)

\* C5: get_top_image asks for one listing of at most limit posts, in the
\* sort chosen, meets the batch in the API's order (or, with random, in some
\* order of the same batch) and returns the earliest post that passes the
\* NSFW filter, the flair filter and has a usable URL; it returns None
\* exactly when no post passes, and main then exits non-zero without asking
\* for another listing.
C5_EarliestPassingPost ==
    /\ pc = "check_image" =>
          /\ Cardinality(ListingCalls) = 1
          /\ network[Len(network)] = ListingRequest(The(args))
          /\ Len(listing) <= The(args).limit
          /\ SameBatch
          /\ ~The(args).random => submissions = listing
          /\ IF Passing = {}
             THEN image = {}
             ELSE image # {} /\ The(image).id = submissions[Min(Passing)].id
    /\ ("get_top_image" \in Steps /\ pc # "check_image" /\ image = {}) =>
          /\ pc = "done"
          /\ exitCode \notin {{}, {0}}
          /\ Cardinality(ListingCalls) = 1

\* C5's case: a flair filter is set, the first post of the batch fails a
\* filter and the second passes and is returned
C5_Witness ==
    /\ pc = "check_image"
    /\ The(args).flair # <<>>
    /\ Len(submissions) = 2
    /\ Passing = {2}
    /\ PassesNsfw(submissions[1])
    /\ HasUsableUrl(submissions[1])
    /\ image # {}

(***************************************************************************)
(* C6                                                                      *)
(***************************************************************************)

\* the direct-image form of an Imgur link
DirectForm(url) == DirectImgur \o Identifier(url) \o DotJpg

\* C6 as stated: every selected post whose URL contains imgur.com and is no
\* album or gallery link is returned as http://i.imgur.com/<identifier>.jpg
\* with type jpg, https://imgur.com/abc123.png?x=1 included.
C6_EveryImgurLinkRewritten ==
    (image # {} /\ ImgurPageLink(Selected.url)) =>
        /\ The(image).url = DirectForm(Selected.url)
        /\ The(image).type = Jpg

\* C6, amended: a selected post whose URL, the query string stripped, ends
\* in .jpg, .png or .jpeg is returned with that stripped URL and that
\* extension as type, an Imgur link included; a selected Imgur link that is
\* no album or gallery link and ends in none of the three is returned as
\* http://i.imgur.com/<identifier>.jpg with type jpg.
C6_ImgurPageLinkRewritten ==
    image # {} =>
        IF EndsInImageExtension(StrippedUrl(Selected))
        THEN /\ The(image).url = StrippedUrl(Selected)
             /\ \E e \in {DotJpg, DotPng, DotJpeg} :
                   EndsWith(StrippedUrl(Selected), e) /\ The(image).type = Tail(e)
        ELSE /\ ImgurPageLink(StrippedUrl(Selected))
             /\ The(image).url = DirectForm(Selected.url)
             /\ The(image).type = Jpg

\* C6's case: https://imgur.com/abc123.gif?x=1 was selected and rewritten to
\* http://i.imgur.com/abc123.jpg
C6_Witness ==
    /\ image # {}
    /\ Selected.url = HttpsImgur \o <<"/">> \o Abc123 \o DotGif \o Query
    /\ The(image).url = DirectImgur \o Abc123 \o DotJpg

(***************************************************************************)
(* C7 and C9                                                               *)
(***************************************************************************)

\* the lines of the configuration file, none when it cannot be read
FileLines == IF configFile.kind = "text" THEN configFile.lines ELSE <<>>

\* the texts the file gives for a key
FileTexts(key) ==
    {FileLines[i].value : i \in {j \in 1..Len(FileLines) :
                                    FileLines[j].t = "opt" /\ FileLines[j].key = key}}

\* a text is of the type of its key
ValidText(key, text) ==
    CASE key \in {"display", "limit"} -> IsIntLiteral(text)
      [] key \in {"nsfw", "random"} -> Lower(text) \in TrueWords \cup FalseWords
      [] OTHER -> TRUE

\* the value a valid text stands for
TextValue(key, text) ==
    CASE key \in {"display", "limit"} -> ParseInt(text)
      [] key \in {"nsfw", "random"} -> Lower(text) \in TrueWords
      [] OTHER -> text

\* the file supplies a valid value for the key
FileSupplies(key) == \E text \in FileTexts(key) : ValidText(key, text)

FileValue(key) == TextValue(key, CHOOSE text \in FileTexts(key) : ValidText(key, text))

\* a typed value as a plain one; the default of display is the text "0"
Plain(key, value) ==
    IF key \in {"display", "limit"} /\ value.t = "str" THEN ParseInt(value.v) ELSE value.v

DefaultValue(key) == Plain(key, DEFAULT_CONFIG[key])

\* the value a flag gives its key
FlagValue(key) ==
    CASE key \in {"display", "limit"} -> ParseInt(argv[key])
      [] key \in {"nsfw", "random"} -> TRUE
      [] OTHER -> argv[key]

\* C7: whatever the configuration file (missing, unreadable, malformed, a
\* key with a value of the wrong type), load_config returns: the run is not
\* aborted, and every field holds the file's value where the file gives a
\* valid one and the built-in default elsewhere.
C7_LoadConfigAlwaysReturns ==
    pc # "import" =>
        /\ config # {}
        /\ \A key \in Keys :
              Plain(key, The(config)[key]) =
                 IF FileSupplies(key) THEN FileValue(key) ELSE DefaultValue(key)

\* C9: for each of the nine keys the resolved option is the flag's value
\* when the flag is given, else the configuration file's value when the file
\* supplies a valid one, else the built-in default.
C9_FlagOverFileOverDefault ==
    args # {} =>
        \A key \in Keys :
            The(args)[key] =
               IF key \in DOMAIN argv THEN FlagValue(key)
               ELSE IF FileSupplies(key) THEN FileValue(key)
               ELSE DefaultValue(key)

\* C9's case: the file and the command line both give limit, with different
\* values, and the flag's is the resolved one
C9_Witness ==
    /\ args # {}
    /\ "limit" \in DOMAIN argv
    /\ FileSupplies("limit")
    /\ FileValue("limit") # FlagValue("limit")
    /\ The(args).limit = FlagValue("limit")

(***************************************************************************)
(* C8                                                                      *)
(***************************************************************************)

MainSteps ==
    <<"parse_args", "load_credentials", "praw.Reddit", "get_top_image",
      "download_image", "set_wallpaper">>

\* the step each fatal message belongs to
FatalStep ==
    [m \in {"Error: client_id and api_key not provided.",
            "Error initializing Reddit API",
            "Error: No suitable images were found, the program is now exiting.",
            "Error: Failed to download image."} |->
        CASE m = "Error: client_id and api_key not provided." -> "load_credentials"
          [] m = "Error initializing Reddit API" -> "praw.Reddit"
          [] m = "Error: No suitable images were found, the program is now exiting."
                -> "get_top_image"
          [] OTHER -> "download_image"]

\* every step at most once, in the order of main
StepsInOrder == Len(trail) <= Len(MainSteps) /\ trail = SubSeq(MainSteps, 1, Len(trail))

\* a fatal condition ends the run, non-zero and with its message, before any
\* later step starts, so the setter is not invoked
FatalEndsTheRun ==
    \A i \in 1..Len(stderr) :
        stderr[i] \in DOMAIN FatalStep =>
            /\ pc = "done"
            /\ exitCode \notin {{}, {0}}
            /\ trail[Len(trail)] = FatalStep[stderr[i]]
            /\ setterCalls = <<>>

\* a run that reached the setter exits 0
SetterRunExitsZero == (pc = "done" /\ setterCalls # <<>>) => exitCode = {0}

\* C8: the steps of main run at most once each and in order; a fatal
\* condition ends the run with a message and a non-zero status before any
\* later step, so the setter is not invoked in such a run; and a run that
\* reaches the setter exits 0, whatever the desktop environment and whatever
\* becomes of the wallpaper command.
C8_LinearRunAndExitStatus == StepsInOrder /\ FatalEndsTheRun /\ SetterRunExitsZero

(***************************************************************************)
(* C10                                                                     *)
(***************************************************************************)

ImageTypes == {Jpg, Png, Jpeg}

\* C10: set_wallpaper is invoked only with the path
\* <home>/<output>/<subreddit>-<post id>.<type> of the post selected in this
\* run, a regular file exists there, and its extension is jpg, png or jpeg;
\* download_image returns True only if the file exists at save_location, and
\* get_top_image returns no other type than these three.
C10_SetterGetsAnExistingImageFile ==
    /\ \A i \in 1..Len(setterCalls) :
          /\ setterCalls[i] =
                [home |-> "~", dir |-> The(args).output,
                 name |-> The(args).subreddit \o <<"-">> \o Selected.id \o <<".">>
                             \o The(image).type]
          /\ setterCalls[i] \in DOMAIN files
          /\ SplitLast(setterCalls[i].name, ".") \in ImageTypes
    /\ downloaded = {TRUE} => The(save_location) \in DOMAIN files
    /\ image # {} => The(image).type \in ImageTypes

\* C10's case: the setter was invoked with a png this run has just written
C10_Witness ==
    /\ setterCalls # <<>>
    /\ The(image).type = Png
    /\ files[setterCalls[1]].status = 200
    /\ files[setterCalls[1]] # EarlierFile

=============================================================================
